---- MODULE Spec2Model ----
(***************************************************************************)
(* Model of shuttle-env-vars (src/src/lib.rs): the EnvVars resource        *)
(* builder, its two lifecycle entry points output (phase 1) and build      *)
(* (phase 2), and the collaborators they call: the host factory, the       *)
(* shuttle_static_folder provider, dotenvy's from_filename and the         *)
(* process environment.                                                    *)
(*                                                                         *)
(* A path (&str / PathBuf) is the sequence of its components; an absolute  *)
(* path starts with the root component "/", and the empty path is << >>.   *)
(* An Option is a sequence of length 0 (None) or 1 (Some).  A Result is a  *)
(* record [ok, val, err] where err is a sequence of strings (<< >> on Ok). *)
(***************************************************************************)
EXTENDS Naturals, Sequences, FiniteSets, TLC

VARIABLES
    this,          \* the EnvVars descriptor (folder, env_prod, env_local, static_provider)
    phase,         \* "builder" until output consumes the descriptor, then "declared" / "failed"
    is_production, \* what factory.get_environment() answers (MockFactory.is_production)
    outputRes,     \* the Result of output: Ok(ResourceOutput) or Err
    fs,            \* the file system: [dirs, files]
    env,           \* the process-wide environment: key -> value or Unset
    calls,         \* what output asked of its collaborators: [provider, io]
    last,          \* the argument of the last folder / env_prod / env_local call, if any
    hist           \* one record per build call, in order

vars == <<this, phase, is_production, outputRes, fs, env, calls, last, hist>>

\* ------------------------------------------------------------------ bounds

MaxBuilds == 2

\* ------------------------------------------------------------------ options, results

None == << >>

Some(x) == <<x>>

IsSome(o) == Len(o) = 1

Unwrap(o) == o[1]

Ok(v) == [ok |-> TRUE, val |-> v, err |-> << >>]

Err(e) == [ok |-> FALSE, val |-> << >>, err |-> e]

\* ------------------------------------------------------------------ paths

Root == "/"

ParentDir == ".."

IsAbsolute(p) == Len(p) > 0 /\ p[1] = Root

\* PathBuf::join: an absolute argument replaces the base
Join(base, p) == IF IsAbsolute(p) THEN p ELSE base \o p

IsPrefix(a, b) == Len(a) <= Len(b) /\ SubSeq(b, 1, Len(a)) = a

DropLast(p) == SubSeq(p, 1, Len(p) - 1)

RECURSIVE NormFrom(_, _)
NormFrom(acc, rest) ==
    IF rest = << >> THEN acc
    ELSE IF Head(rest) = ParentDir
         THEN NormFrom(IF Len(acc) > 1 THEN DropLast(acc) ELSE acc, Tail(rest))
         ELSE NormFrom(Append(acc, Head(rest)), Tail(rest))

\* the path with its ".." components resolved
Normalize(p) == NormFrom(<< >>, p)

\* ------------------------------------------------------------------ program constants

DEFAULT_FOLDER == <<".env">>

DEFAULT_ENV_PROD == <<".env">>

\* ------------------------------------------------------------------ the world of the tests

\* MockFactory::build_path, storage_path, escape_path
BuildPath == <<Root, "build">>

StoragePath == <<Root, "storage">>

EscapePath == <<Root, "escape">>

\* the directory the process runs in
Cwd == BuildPath

Unset == "<unset>"

Keys == {"MY_VAR", "OTHER"}

Line(k, v) == <<k, v>>

Malformed == <<"?">>

GoodContent == <<Line("MY_VAR", "1")>>

ProdContent == <<Line("MY_VAR", "2"), Line("OTHER", "1")>>

DupContent == <<Line("MY_VAR", "1"), Line("MY_VAR", "2")>>

BadContent == <<Line("OTHER", "2"), Malformed, Line("MY_VAR", "1")>>

BaseDirs ==
    { <<Root>>, BuildPath, StoragePath, EscapePath, <<Root, "etc">>,
      BuildPath \o <<".env">>, BuildPath \o <<"other">> }

BaseFiles ==
    ( BuildPath \o <<"other", ".env-prod">> :> ProdContent )
    @@ ( EscapePath \o <<"passwd">> :> BadContent )
    @@ ( <<Root, "etc", "passwd">> :> GoodContent )
    @@ ( BuildPath \o <<".env-dev">> :> GoodContent )
    @@ ( BuildPath \o <<".env-dup">> :> DupContent )
    @@ ( <<Root, ".env-up">> :> ProdContent )

\* the file .env/.env of the build folder: present, absent, or malformed
FsPresent == [dirs |-> BaseDirs, files |-> (BuildPath \o <<".env", ".env">> :> GoodContent) @@ BaseFiles]

FsAbsent == [dirs |-> BaseDirs, files |-> BaseFiles]

FsMalformed == [dirs |-> BaseDirs, files |-> (BuildPath \o <<".env", ".env">> :> BadContent) @@ BaseFiles]

FileSystems == {FsPresent, FsAbsent, FsMalformed}

Environments == [Keys -> {Unset, "0"}]

\* the arguments the builder methods are called with
FolderNames == { <<".env">>, <<"other">>, <<Root, "etc">>, <<ParentDir, "escape">>, <<"random">> }

ProdNames == { <<".env">>, <<".env-prod">>, <<Root, "etc", "passwd">>, <<ParentDir, ParentDir, "escape", "passwd">> }

LocalNames ==
    { << >>, <<".env-dev">>, <<".env-dup">>, <<".env-up">>, <<"random", ".env-dev">>,
      EscapePath \o <<"passwd">> }

\* ------------------------------------------------------------------ shuttle_static_folder

StaticFolder_new == [folder |-> <<"static">>]

StaticFolder_folder(p, f) == [p EXCEPT !.folder = f]

\* StaticFolder::output: refuses an absolute folder, canonicalizes build_path/folder
\* (file I/O) and refuses a folder that left the build path; copies nothing
StaticFolder_output(p, fsys) ==
    IF IsAbsolute(p.folder)
    THEN [res |-> Err(<<"AbsolutePath">>), io |-> 0]
    ELSE LET input == Join(BuildPath, p.folder) IN
         [ io  |-> 1,
           res |-> IF Normalize(input) \notin fsys.dirs THEN Err(<<"Io">>)
                   ELSE IF Normalize(input) # input THEN Err(<<"TransversedUp">>)
                   ELSE Ok([input |-> input, output |-> Join(StoragePath, p.folder)]) ]

Rebase(p, from, to) == to \o SubSeq(p, Len(from) + 1, Len(p))

\* fs_extra::dir::copy with overwrite: the tree under input lands under output
CopyDir(fsys, input, output) ==
    LET srcDirs  == {d \in fsys.dirs : IsPrefix(input, d)}
        srcFiles == {f \in DOMAIN fsys.files : IsPrefix(input, f)}
        dstFiles == {Rebase(f, input, output) : f \in srcFiles}
    IN  [ dirs  |-> fsys.dirs \cup {Rebase(d, input, output) : d \in srcDirs},
          files |-> [q \in (DOMAIN fsys.files) \cup dstFiles |->
                        IF q \in dstFiles
                        THEN fsys.files[CHOOSE f \in srcFiles : Rebase(f, input, output) = q]
                        ELSE fsys.files[q]] ]

\* StaticFolder::build: copies input to output and answers the output directory
StaticFolder_build(paths, fsys) ==
    IF paths.output = paths.input
    THEN [res |-> Ok(paths.output), fs |-> fsys, copied |-> FALSE]
    ELSE IF paths.input \notin fsys.dirs
         THEN [res |-> Err(<<"Io">>), fs |-> fsys, copied |-> FALSE]
         ELSE [res |-> Ok(paths.output), fs |-> CopyDir(fsys, paths.input, paths.output),
               copied |-> TRUE]

\* ------------------------------------------------------------------ dotenvy

\* Finder::find: looks for directory/filename in the working directory, then in
\* each of its ancestors
RECURSIVE Find(_, _, _)
Find(fsys, dir, filename) ==
    IF Normalize(Join(dir, filename)) \in DOMAIN fsys.files
    THEN Ok(Join(dir, filename))
    ELSE IF Len(dir) > 1 THEN Find(fsys, DropLast(dir), filename)
         ELSE Err(<<"Io">>)

\* Iter::load: line by line, a key that is already set is left alone; the first
\* malformed line ends the load with the earlier lines installed
RECURSIVE LoadLines(_, _)
LoadLines(lines, e) ==
    IF lines = << >> THEN [ok |-> TRUE, env |-> e]
    ELSE LET l == Head(lines) IN
         IF Len(l) # 2 THEN [ok |-> FALSE, env |-> e]
         ELSE LoadLines(Tail(lines),
                        IF e[l[1]] = Unset THEN [e EXCEPT ![l[1]] = l[2]] ELSE e)

\* dotenvy::from_filename
from_filename(fsys, e, filename) ==
    LET found == Find(fsys, Cwd, filename) IN
    IF ~found.ok THEN [res |-> Err(found.err), env |-> e]
    ELSE LET loaded == LoadLines(fsys.files[Normalize(found.val)], e) IN
         [ res |-> IF loaded.ok THEN Ok(found.val) ELSE Err(<<"LineParse">>),
           env |-> loaded.env ]

\* ------------------------------------------------------------------ EnvVars

EnvVars_new ==
    [ folder          |-> DEFAULT_FOLDER,
      env_prod        |-> DEFAULT_ENV_PROD,
      env_local       |-> None,
      static_provider |-> Some(StaticFolder_folder(StaticFolder_new, DEFAULT_FOLDER)) ]

\* folder that forgets to re-target the static provider
EnvVars_folder_forgets_provider(self, folder) == [self EXCEPT !.folder = folder]

EnvVars_folder(self, folder) ==
    [ self EXCEPT !.folder = folder,
                  !.static_provider =
                      IF IsSome(@) THEN Some(StaticFolder_folder(Unwrap(@), folder)) ELSE None ]

EnvVars_env_prod(self, env_prod) == [self EXCEPT !.env_prod = env_prod]

EnvVars_env_local(self, env_local) == [self EXCEPT !.env_local = Some(env_local)]

\* load_env_vars that logs the parser's error and answers the path all the same
load_env_vars_swallows_error(fsys, e, env_file_path) ==
    IF env_file_path = << >>
    THEN [res |-> Ok(<< >>), env |-> e, parsed |-> FALSE]
    ELSE LET r == from_filename(fsys, e, env_file_path) IN
         [ res    |-> IF r.res.ok THEN r.res ELSE Ok(env_file_path),
           env    |-> r.env,
           parsed |-> TRUE ]

\* load_env_vars without its early return for the empty path
load_env_vars_always_parses(fsys, e, env_file_path) ==
    LET r == from_filename(fsys, e, env_file_path) IN
    [ res    |-> IF r.res.ok THEN r.res ELSE Err(<<"EnvError">> \o r.res.err),
      env    |-> r.env,
      parsed |-> TRUE ]

\* EnvVars::load_env_vars: the empty path is success without a parser call
load_env_vars(fsys, e, env_file_path) ==
    IF env_file_path = << >>
    THEN [res |-> Ok(<< >>), env |-> e, parsed |-> FALSE]
    ELSE LET r == from_filename(fsys, e, env_file_path) IN
         [ res    |-> IF r.res.ok THEN r.res ELSE Err(<<"EnvError">> \o r.res.err),
           env    |-> r.env,
           parsed |-> TRUE ]

\* impl From<EnvError> for shuttle_service::Error
FromEnvError(error) == <<"Cannot load env vars">> \o Tail(error)

\* ------------------------------------------------------------------ ResourceOutput

\* ResourceOutput::new with its two file names swapped
ResourceOutput_new_swapped(paths, env_local, env_prod) ==
    [ paths     |-> paths,
      env_local |-> env_prod,
      env_prod  |-> IF IsSome(env_local) THEN Unwrap(env_local) ELSE << >> ]

ResourceOutput_new(paths, env_local, env_prod) ==
    [ paths     |-> paths,
      env_local |-> IF IsSome(env_local) THEN Unwrap(env_local) ELSE << >>,
      env_prod  |-> env_prod ]

ResourceOutput_env_file_path(self, output_dir) ==
    IF IsSome(output_dir) THEN Join(Unwrap(output_dir), self.env_prod) ELSE self.env_local

\* ------------------------------------------------------------------ ResourceBuilder for EnvVars

\* output answers [res, this, provider, io]: the Result, the descriptor it leaves, and
\* how often it called the static provider and touched the file system

\* output, not in production: the early return
output_local(self) ==
    [ res |-> Ok(ResourceOutput_new(None, self.env_local, self.env_prod)),
      this |-> self, provider |-> 0, io |-> 0 ]

\* output in production that goes on without the paths when the provider fails
output_production_keeps_going(self, fsys) ==
    LET static_provider == Unwrap(self.static_provider)
        paths == StaticFolder_output(static_provider, fsys)
    IN  [ res |-> IF ~paths.res.ok
                  THEN Ok(ResourceOutput_new(None, self.env_local, self.env_prod))
                  ELSE Ok(ResourceOutput_new(Some(paths.res.val), self.env_local, self.env_prod)),
          this |-> [self EXCEPT !.static_provider = None],
          provider |-> 1, io |-> paths.io ]

\* output, in production: take the static provider and ask it for the paths
output_production(self, fsys) ==
    LET static_provider == Unwrap(self.static_provider)
        paths == StaticFolder_output(static_provider, fsys)
    IN  [ res |-> IF ~paths.res.ok THEN Err(paths.res.err)
                  ELSE Ok(ResourceOutput_new(Some(paths.res.val), self.env_local, self.env_prod)),
          this |-> [self EXCEPT !.static_provider = None],
          provider |-> 1, io |-> paths.io ]

\* output that never asks the factory for the environment
output_ignores_environment(self, production, fsys) == output_production(self, fsys)

output(self, production, fsys) ==
    IF ~production THEN output_local(self) ELSE output_production(self, fsys)

\* build answers [res, fs, env, copied, parsed, candidate]: the Result, the file system
\* and environment it leaves, whether the provider copied, whether the parser ran, and
\* the path handed to load_env_vars (None when none was computed)

\* build in production that answers the env file instead of the output directory
build_production_returns_file(build_data, fsys, e) ==
    LET sf == StaticFolder_build(Unwrap(build_data.paths), fsys) IN
    IF ~sf.res.ok
    THEN [ res |-> Err(sf.res.err), fs |-> sf.fs, env |-> e, copied |-> sf.copied,
           parsed |-> FALSE, candidate |-> None ]
    ELSE LET output_dir    == sf.res.val
             env_file_path == ResourceOutput_env_file_path(build_data, Some(output_dir))
             l             == load_env_vars(sf.fs, e, env_file_path)
         IN  [ res |-> IF ~l.res.ok THEN Err(FromEnvError(l.res.err)) ELSE Ok(env_file_path),
               fs |-> sf.fs, env |-> l.env, copied |-> sf.copied,
               parsed |-> l.parsed, candidate |-> Some(env_file_path) ]

\* build in production that undoes the copy when the load fails
build_production_rolls_back(build_data, fsys, e) ==
    LET sf == StaticFolder_build(Unwrap(build_data.paths), fsys) IN
    IF ~sf.res.ok
    THEN [ res |-> Err(sf.res.err), fs |-> sf.fs, env |-> e, copied |-> sf.copied,
           parsed |-> FALSE, candidate |-> None ]
    ELSE LET output_dir    == sf.res.val
             env_file_path == ResourceOutput_env_file_path(build_data, Some(output_dir))
             l             == load_env_vars(sf.fs, e, env_file_path)
         IN  IF ~l.res.ok
             THEN [ res |-> Err(FromEnvError(l.res.err)), fs |-> fsys, env |-> e,
                    copied |-> FALSE, parsed |-> l.parsed, candidate |-> Some(env_file_path) ]
             ELSE [ res |-> Ok(output_dir), fs |-> sf.fs, env |-> l.env, copied |-> sf.copied,
                    parsed |-> l.parsed, candidate |-> Some(env_file_path) ]

\* build in production that skips the copy and the load once the output directory exists
build_production_cached(build_data, fsys, e) ==
    IF Unwrap(build_data.paths).output \in fsys.dirs
    THEN [ res |-> Ok(Unwrap(build_data.paths).output), fs |-> fsys, env |-> e,
           copied |-> FALSE, parsed |-> FALSE, candidate |-> None ]
    ELSE LET sf == StaticFolder_build(Unwrap(build_data.paths), fsys) IN
         IF ~sf.res.ok
         THEN [ res |-> Err(sf.res.err), fs |-> sf.fs, env |-> e, copied |-> sf.copied,
                parsed |-> FALSE, candidate |-> None ]
         ELSE LET output_dir    == sf.res.val
                  env_file_path == ResourceOutput_env_file_path(build_data, Some(output_dir))
                  l             == load_env_vars(sf.fs, e, env_file_path)
              IN  [ res |-> IF ~l.res.ok THEN Err(FromEnvError(l.res.err)) ELSE Ok(output_dir),
                    fs |-> sf.fs, env |-> l.env, copied |-> sf.copied,
                    parsed |-> l.parsed, candidate |-> Some(env_file_path) ]

\* build, production environment
build_production(build_data, fsys, e) ==
    LET sf == StaticFolder_build(Unwrap(build_data.paths), fsys) IN
    IF ~sf.res.ok
    THEN [ res |-> Err(sf.res.err), fs |-> sf.fs, env |-> e, copied |-> sf.copied,
           parsed |-> FALSE, candidate |-> None ]
    ELSE LET output_dir    == sf.res.val
             env_file_path == ResourceOutput_env_file_path(build_data, Some(output_dir))
             l             == load_env_vars(sf.fs, e, env_file_path)
         IN  [ res |-> IF ~l.res.ok THEN Err(FromEnvError(l.res.err)) ELSE Ok(output_dir),
               fs |-> sf.fs, env |-> l.env, copied |-> sf.copied,
               parsed |-> l.parsed, candidate |-> Some(env_file_path) ]

\* build in development that answers the path dotenvy found instead of env_file_path
build_development_returns_found(build_data, fsys, e) ==
    LET env_file_path == ResourceOutput_env_file_path(build_data, None)
        l             == load_env_vars(fsys, e, env_file_path)
    IN  [ res |-> IF ~l.res.ok THEN Err(FromEnvError(l.res.err)) ELSE Ok(l.res.val),
          fs |-> fsys, env |-> l.env, copied |-> FALSE,
          parsed |-> l.parsed, candidate |-> Some(env_file_path) ]

\* build, development environment
build_development(build_data, fsys, e) ==
    LET env_file_path == ResourceOutput_env_file_path(build_data, None)
        l             == load_env_vars(fsys, e, env_file_path)
    IN  [ res |-> IF ~l.res.ok THEN Err(FromEnvError(l.res.err)) ELSE Ok(env_file_path),
          fs |-> fsys, env |-> l.env, copied |-> FALSE,
          parsed |-> l.parsed, candidate |-> Some(env_file_path) ]

build(build_data, fsys, e) ==
    IF IsSome(build_data.paths)
    THEN build_production(build_data, fsys, e)
    ELSE build_development(build_data, fsys, e)

\* ------------------------------------------------------------------ the state machine

NoResult == [ok |-> FALSE, val |-> << >>, err |-> <<"none">>]

Init ==
    /\ this = EnvVars_new
    /\ phase = "builder"
    /\ is_production \in BOOLEAN
    /\ outputRes = NoResult
    /\ fs \in FileSystems
    /\ env \in Environments
    /\ calls = [provider |-> 0, io |-> 0]
    /\ last = [folder |-> None, env_prod |-> None, env_local |-> None]
    /\ hist = << >>

Folder ==
    /\ phase = "builder"
    /\ \E f \in FolderNames :
        /\ this' = EnvVars_folder(this, f)
        /\ last' = [last EXCEPT !.folder = Some(f)]
    /\ UNCHANGED <<phase, is_production, outputRes, fs, env, calls, hist>>

EnvProd ==
    /\ phase = "builder"
    /\ \E p \in ProdNames :
        /\ this' = EnvVars_env_prod(this, p)
        /\ last' = [last EXCEPT !.env_prod = Some(p)]
    /\ UNCHANGED <<phase, is_production, outputRes, fs, env, calls, hist>>

EnvLocal ==
    /\ phase = "builder"
    /\ \E l \in LocalNames :
        /\ this' = EnvVars_env_local(this, l)
        /\ last' = [last EXCEPT !.env_local = Some(l)]
    /\ UNCHANGED <<phase, is_production, outputRes, fs, env, calls, hist>>

Output ==
    /\ phase = "builder"
    /\ LET o == output(this, is_production, fs) IN
        /\ this' = o.this
        /\ outputRes' = o.res
        /\ phase' = IF o.res.ok THEN "declared" ELSE "failed"
        /\ calls' = [provider |-> calls.provider + o.provider, io |-> calls.io + o.io]
    /\ UNCHANGED <<is_production, fs, env, last, hist>>

Build ==
    /\ phase = "declared"
    /\ Len(hist) < MaxBuilds
    /\ LET b == build(outputRes.val, fs, env) IN
        /\ fs' = b.fs
        /\ env' = b.env
        /\ hist' = Append(hist, [ res |-> b.res, candidate |-> b.candidate,
                                  copied |-> b.copied, parsed |-> b.parsed,
                                  envBefore |-> env, envAfter |-> b.env,
                                  fsBefore |-> fs, fsAfter |-> b.fs ])
    /\ UNCHANGED <<this, phase, is_production, outputRes, calls, last>>

Next == Folder \/ EnvProd \/ EnvLocal \/ Output \/ Build

Spec == Init /\ [][Next]_vars

\* ------------------------------------------------------------------ properties

\* the declaration output produced, and whether it is a production one
Declaration == outputRes.val

IsProductionDeclaration == IsSome(Declaration.paths)

OutputDirectory == Unwrap(Declaration.paths).output

\* C1, as stated: a production build that succeeds returns outputDirectory/prodFile,
\* the very candidate path that was handed to the env-file parser.
C1_ReturnsCandidatePath ==
    \A i \in DOMAIN hist :
        (IsProductionDeclaration /\ hist[i].res.ok) =>
            /\ hist[i].res.val = Join(OutputDirectory, Declaration.env_prod)
            /\ hist[i].candidate = Some(hist[i].res.val)

\* C1, amended: a production build that succeeds returns the provider's output
\* directory (storage path joined with folder) itself, while the path handed to the
\* parser is that directory joined with prodFile.
C1_ReturnsOutputDirectory ==
    \A i \in DOMAIN hist :
        (IsProductionDeclaration /\ hist[i].res.ok) =>
            /\ hist[i].res.val = OutputDirectory
            /\ OutputDirectory = Join(StoragePath, this.folder)
            /\ hist[i].candidate = Some(Join(OutputDirectory, Declaration.env_prod))

C1_Witness ==
    \E i \in DOMAIN hist :
        /\ IsProductionDeclaration /\ hist[i].res.ok /\ hist[i].copied /\ hist[i].parsed
        /\ this.folder = <<"other">> /\ this.env_prod = <<".env-prod">>

\* C2: outside production, output never calls the static provider, touches no file,
\* and succeeds with a declaration without paths, whatever the folder is.
C2_LocalOutputIsPure ==
    (~is_production /\ phase # "builder") =>
        /\ phase = "declared"
        /\ outputRes.ok
        /\ Declaration.paths = None
        /\ calls = [provider |-> 0, io |-> 0]
        /\ (hist = << >> => fs \in FileSystems)

C2_Witness ==
    /\ ~is_production /\ phase = "declared" /\ hist = << >>
    /\ this.folder = <<Root, "etc">>

\* the folder, resolved under the build path, lies outside the build path
ResolvesOutsideRoot(folder) ==
    ~IsAbsolute(folder) /\ ~IsPrefix(BuildPath, Normalize(Join(BuildPath, folder)))

\* C3: in production, an absolute folder makes output fail with AbsolutePath and a
\* folder that resolves outside the build path makes it fail with TransversedUp,
\* whatever env_prod and env_local are; no declaration exists, nothing was copied.
C3_ProductionRejectsUnsafeFolder ==
    (is_production /\ phase # "builder") =>
        /\ IsAbsolute(this.folder) =>
               /\ phase = "failed" /\ outputRes = Err(<<"AbsolutePath">>)
               /\ hist = << >> /\ fs \in FileSystems
        /\ ResolvesOutsideRoot(this.folder) =>
               /\ phase = "failed" /\ outputRes = Err(<<"TransversedUp">>)
               /\ hist = << >> /\ fs \in FileSystems

C3_Witness ==
    /\ is_production /\ phase = "failed"
    /\ this.folder = <<ParentDir, "escape">>
    /\ this.env_prod = <<".env-prod">> /\ this.env_local = Some(<<".env-dev">>)

\* C4: a build of a local declaration whose env_local is empty returns the empty
\* path as success, does not call the parser and leaves the environment (and the
\* file system) as they were, whatever folder and env_prod are.
C4_EmptyLocalFileLoadsNothing ==
    \A i \in DOMAIN hist :
        (~IsProductionDeclaration /\ Declaration.env_local = << >>) =>
            /\ hist[i].res = Ok(<< >>)
            /\ ~hist[i].parsed
            /\ hist[i].envAfter = hist[i].envBefore
            /\ hist[i].fsAfter = hist[i].fsBefore

C4_Witness ==
    \E i \in DOMAIN hist :
        /\ ~IsProductionDeclaration /\ this.env_local = None
        /\ this.folder = <<ParentDir, "escape">> /\ this.env_prod = <<".env-prod">>
        /\ hist[i].res.ok

\* what an env file says, read independently of the loader
WellFormed(content) == \A j \in DOMAIN content : Len(content[j]) = 2

KeysOf(content) == {content[j][1] : j \in {n \in DOMAIN content : Len(content[n]) = 2}}

DistinctKeys(content) ==
    \A j, m \in DOMAIN content : (j # m /\ WellFormed(content)) => content[j][1] # content[m][1]

FirstValue(content, k) ==
    content[CHOOSE j \in DOMAIN content :
                /\ content[j][1] = k
                /\ \A m \in 1..(j - 1) : content[m][1] # k][2]

\* the lines before the first malformed one
GoodPrefix(content) ==
    SubSeq(content, 1,
           (CHOOSE j \in DOMAIN content : Len(content[j]) # 2 /\ \A m \in 1..(j - 1) : Len(content[m]) = 2) - 1)

\* the file a path resolves to, in a file system
Resolves(fsys, path) == path # << >> /\ Find(fsys, Cwd, path).ok

ContentAt(fsys, path) == fsys.files[Normalize(Find(fsys, Cwd, path).val)]

\* the i-th build is of a local declaration whose env_local is a well-formed file
LocalFileLoads(i) ==
    /\ ~IsProductionDeclaration
    /\ Resolves(hist[i].fsBefore, Declaration.env_local)
    /\ WellFormed(ContentAt(hist[i].fsBefore, Declaration.env_local))

\* C5, as stated (for files that name each key once): a local build with a readable,
\* well-formed env_local returns that path, and afterwards every KEY of the file reads
\* as its VALUE, whatever KEY held before the load.
C5_FileValuesOverrideEnvironment ==
    \A i \in DOMAIN hist :
        (LocalFileLoads(i) /\ DistinctKeys(ContentAt(hist[i].fsBefore, Declaration.env_local))) =>
            /\ hist[i].res = Ok(Declaration.env_local)
            /\ \A j \in DOMAIN ContentAt(hist[i].fsBefore, Declaration.env_local) :
                   LET line == ContentAt(hist[i].fsBefore, Declaration.env_local)[j]
                   IN  hist[i].envAfter[line[1]] = line[2]

\* C5, amended: a local build with a readable, well-formed env_local returns that
\* path (folder and env_prod play no part), and afterwards a key that was unset
\* before the load reads as the value of its first KEY=VALUE line of the file, while
\* a key that was already set keeps the value it held; other keys are untouched.
C5_FileValuesFillUnsetKeys ==
    \A i \in DOMAIN hist :
        LocalFileLoads(i) =>
            /\ hist[i].res = Ok(Declaration.env_local)
            /\ hist[i].parsed
            /\ \A k \in Keys :
                   hist[i].envAfter[k] =
                       IF hist[i].envBefore[k] # Unset THEN hist[i].envBefore[k]
                       ELSE IF k \in KeysOf(ContentAt(hist[i].fsBefore, Declaration.env_local))
                            THEN FirstValue(ContentAt(hist[i].fsBefore, Declaration.env_local), k)
                            ELSE Unset

C5_Witness ==
    \E i \in DOMAIN hist :
        /\ LocalFileLoads(i)
        /\ Declaration.env_local = <<".env-dev">>
        /\ this.folder = <<ParentDir, "escape">>
        /\ hist[i].envBefore["MY_VAR"] = "0" /\ hist[i].envAfter["MY_VAR"] = "0"
        /\ hist[i].envBefore["OTHER"] = Unset

\* the parser fails on a path: no file is found for it, or the file has a malformed line
ParserFails(fsys, path) ==
    ~Find(fsys, Cwd, path).ok \/ ~WellFormed(ContentAt(fsys, path))

ParserError(fsys, path) == IF ~Find(fsys, Cwd, path).ok THEN "Io" ELSE "LineParse"

\* C6: whenever the path handed to load_env_vars is not empty and the parser fails on
\* it, build fails with "Cannot load env vars" wrapping the parser's error and returns
\* no path, in production (after the copy) and in development alike.
C6_ParserFailureIsEnvLoadFailure ==
    \A i \in DOMAIN hist :
        ( /\ IsSome(hist[i].candidate)
          /\ Unwrap(hist[i].candidate) # << >>
          /\ ParserFails(hist[i].fsAfter, Unwrap(hist[i].candidate)) ) =>
            /\ ~hist[i].res.ok
            /\ hist[i].res.val = << >>
            /\ hist[i].res.err =
                   <<"Cannot load env vars", ParserError(hist[i].fsAfter, Unwrap(hist[i].candidate))>>

C6_Witness ==
    \E i \in DOMAIN hist :
        /\ IsProductionDeclaration /\ hist[i].copied
        /\ this.folder = DEFAULT_FOLDER /\ this.env_prod = DEFAULT_ENV_PROD
        /\ hist[i].res.err = <<"Cannot load env vars", "Io">>

C6_WitnessLocal ==
    \E i \in DOMAIN hist :
        /\ ~IsProductionDeclaration
        /\ this.folder = <<"random">> /\ Declaration.env_local = <<"random", ".env-dev">>
        /\ hist[i].res.err = <<"Cannot load env vars", "Io">>

LastOr(o, default) == IF IsSome(o) THEN Unwrap(o) ELSE default

\* C7: a declaration that output returned has env_prod equal to the descriptor's,
\* env_local equal to the descriptor's (empty when env_local was never called), and
\* paths present exactly in production; the descriptor's values are those of the last
\* env_prod / env_local call.
C7_DeclarationEchoesDescriptor ==
    phase = "declared" =>
        /\ Declaration.env_prod = this.env_prod
        /\ this.env_prod = LastOr(last.env_prod, DEFAULT_ENV_PROD)
        /\ Declaration.env_local = LastOr(this.env_local, << >>)
        /\ this.env_local = last.env_local
        /\ IsSome(Declaration.paths) <=> is_production

C7_Witness ==
    /\ phase = "declared" /\ is_production
    /\ last.env_local = None /\ Declaration.env_local = << >>
    /\ Declaration.env_prod = <<".env-prod">> /\ last.folder = Some(<<"other">>)

\* C8: until output consumes the descriptor, its static provider is present and the
\* provider's folder equals the descriptor's folder, which is the argument of the last
\* folder call (".env" when there was none): env_prod and env_local change neither.
C8_ProviderFolderInSync ==
    phase = "builder" =>
        /\ IsSome(this.static_provider)
        /\ Unwrap(this.static_provider).folder = this.folder
        /\ this.folder = LastOr(last.folder, DEFAULT_FOLDER)

C8_Witness ==
    /\ phase = "builder"
    /\ last.folder = Some(<<"other">>) /\ Unwrap(this.static_provider).folder = <<"other">>
    /\ IsSome(last.env_prod) /\ IsSome(last.env_local)

\* C9, as stated: whenever build returns an error, nothing was copied and no variable
\* was installed.
C9_FailureHasNoEffect ==
    \A i \in DOMAIN hist :
        ~hist[i].res.ok =>
            /\ ~hist[i].copied
            /\ hist[i].fsAfter = hist[i].fsBefore
            /\ hist[i].envAfter = hist[i].envBefore

\* the copy of the declaration's input folder is in place in a file system
CopyInPlace(before, after) ==
    /\ OutputDirectory \in after.dirs
    /\ \A f \in DOMAIN before.files :
           IsPrefix(Unwrap(Declaration.paths).input, f) =>
               LET g == Rebase(f, Unwrap(Declaration.paths).input, OutputDirectory)
               IN  g \in DOMAIN after.files /\ after.files[g] = before.files[f]

\* C9, amended: whenever build returns an error it returns no path; a development
\* build has copied nothing; a build that fails because no env file is found has
\* installed no variable; but a production build that fails in the parser has
\* completed the copy and leaves it behind, and a malformed file leaves the variables
\* of the lines before its first malformed line installed (where they were unset).
C9_FailureKeepsEarlierEffects ==
    \A i \in DOMAIN hist :
        ~hist[i].res.ok =>
            /\ hist[i].res.val = << >>
            /\ ~IsProductionDeclaration =>
                   ~hist[i].copied /\ hist[i].fsAfter = hist[i].fsBefore
            /\ hist[i].res.err = <<"Cannot load env vars", "Io">> =>
                   hist[i].envAfter = hist[i].envBefore
            /\ (IsProductionDeclaration /\ hist[i].res.err[1] = "Cannot load env vars") =>
                   hist[i].copied /\ CopyInPlace(hist[i].fsBefore, hist[i].fsAfter)
            /\ hist[i].res.err = <<"Cannot load env vars", "LineParse">> =>
                   LET done == GoodPrefix(ContentAt(hist[i].fsAfter, Unwrap(hist[i].candidate)))
                   IN  \A k \in Keys :
                           hist[i].envAfter[k] =
                               IF hist[i].envBefore[k] = Unset /\ k \in KeysOf(done)
                               THEN FirstValue(done, k)
                               ELSE hist[i].envBefore[k]

C9_Witness ==
    \E i \in DOMAIN hist :
        /\ IsProductionDeclaration
        /\ hist[i].res.err = <<"Cannot load env vars", "LineParse">>
        /\ hist[i].fsAfter # hist[i].fsBefore
        /\ hist[i].envAfter # hist[i].envBefore

\* C10: build keeps no cache.  A second build of the same declaration hands the same
\* path to the parser and runs it again, in production copies again, and returns the
\* same result and leaves the same environment and file system as the first.
C10_BuildAgainDoesTheSame ==
    \A i \in DOMAIN hist :
        (i + 1) \in DOMAIN hist =>
            /\ hist[i + 1].res = hist[i].res
            /\ hist[i + 1].candidate = hist[i].candidate
            /\ hist[i + 1].parsed = hist[i].parsed
            /\ hist[i + 1].parsed <=> Unwrap(hist[i + 1].candidate) # << >>
            /\ hist[i + 1].copied <=> IsProductionDeclaration
            /\ hist[i + 1].envAfter = hist[i].envAfter
            /\ hist[i + 1].fsAfter = hist[i].fsAfter

C10_Witness ==
    /\ Len(hist) >= 2
    /\ IsProductionDeclaration
    /\ hist[2].res.ok /\ hist[2].copied /\ hist[2].parsed
    /\ hist[1].envAfter # hist[1].envBefore
    /\ hist[1].fsAfter # hist[1].fsBefore /\ hist[2].fsAfter = hist[2].fsBefore

C11_PlainNameStaysInside ==
    \A i \in DOMAIN hist :
        ( /\ IsProductionDeclaration /\ IsSome(hist[i].candidate)
          /\ Len(Declaration.env_prod) = 1 /\ Declaration.env_prod[1] \notin {Root, ParentDir} ) =>
            /\ Unwrap(hist[i].candidate) = OutputDirectory \o Declaration.env_prod
            /\ Find(hist[i].fsAfter, Cwd, Unwrap(hist[i].candidate)).ok =>
                   IsPrefix(OutputDirectory,
                            Normalize(Find(hist[i].fsAfter, Cwd, Unwrap(hist[i].candidate)).val))

====
